---- MODULE Spec2Model ----
(***************************************************************************)
(* Distributed GCN training driver of PaGraph                              *)
(* (examples/pytorch/pagcn_nssc.py): a launcher spawns one trainer process *)
(* per device; every trainer joins the process group, seeds its generator  *)
(* with its rank, loads its partition, builds and wraps the model for      *)
(* gradient synchronisation and runs the epoch / mini-batch loop, rank 0   *)
(* saving the model every fifth epoch.                                     *)
(***************************************************************************)
EXTENDS Integers, Sequences, FiniteSets, TLC

\* ------------------------------------------------------------------ bounds
MaxWorld == 2      \* largest number of devices in --gpu
MaxEpochs == 10    \* largest --n-epochs
MaxNode == 1       \* largest training node id of a partition
MaxBatch == 2      \* largest --batch-size
MaxGrad == 1       \* local gradients are drawn from 0..MaxGrad
MaxLabel == 1      \* labels are drawn from 0..MaxLabel
MaxFeat == 1       \* stored feature and norm values are drawn from 0..MaxFeat

\* ------------------------------------------------------- program constants
CkptEvery == 5     \* (epoch + 1) % 5 == 0
LogEvery == 20     \* step % 20 == 0

VARIABLES
  world,      \* gpu_num: number of spawned trainers
  nEpochs,    \* args.n_epochs
  batchSize,  \* args.batch_size
  trainNid,   \* rank -> train_nid of the rank's partition (sequence of ids)
  subLabels,  \* rank -> sub_labels of the partition, one per train_nid entry
  t2fid,      \* rank -> global feature id of every local node
  store,      \* the graph store: tensor name -> feature id -> value
  dirOld,     \* args.ckpt before the run: "absent", "empty" or "entries"
  lpc,        \* launcher: "start", "spawn", "join", "success", "error"
  ckptDir,    \* whether the directory args.ckpt exists
  files,      \* checkpoint files: epoch number of the path -> contents
  pc,         \* rank -> position of the trainer
  joined,     \* ranks that have joined the process group
  rng,        \* rank -> state of the torch random generator
  param,      \* rank -> parameters of the replica
  mom,        \* rank -> optimizer (Adam) moment state
  grad,       \* rank -> the .grad buffers of the replica
  epoch,      \* rank -> loop index `epoch`
  step,       \* rank -> `step`, the batches done in this epoch
  order,      \* rank -> the sampler's shuffled seed nodes
  pos,        \* rank -> seed nodes the sampler has handed out
  nf,         \* rank -> seed nodes of the current node flow (<<>>: none)
  nfFwd,      \* rank -> forward passes run on the current node flow
  nfBwd,      \* rank -> backward passes run on the current node flow
  bwd,        \* rank -> backward passes begun over the run
  nsteps,     \* rank -> optimizer steps done over the run
  console,    \* the last loss/timing line printed
  procs,      \* launcher: spawned process index -> the arguments it got
  labels,     \* rank -> the label vector `labels`
  feats,      \* rank -> the fetched tensors and the device they are on
  label,      \* rank -> the labels looked up for the current node flow
  reduced     \* the latest gradient all-reduce every rank has entered

cfg == <<world, nEpochs, batchSize, trainNid, subLabels, t2fid, store, dirOld>>
lvars == <<lpc, ckptDir, files>>
wvars == <<pc, joined, rng, param, mom, grad, epoch, step, order, pos, nf,
           nfFwd, nfBwd, bwd, nsteps, console>>
xvars == <<procs, labels, feats, label, reduced>>
vars == <<cfg, lvars, wvars, xvars>>

Ranks == 0 .. (world - 1)

\* ----------------------------------------------------------------- helpers
RngStates == 0 .. 7
\* A generator nobody seeded: its state comes from the OS entropy source.
Entropy == Cardinality(RngStates)
\* The states a draw may start from.
Draw(s) == IF s = Entropy THEN RngStates ELSE {s}
\* The generator's next state after a draw.
Advance(s) == (5 * s + 3) % 8

\* The ids of a partition's nodes, and of the store's feature rows.
Nodes == 0 .. MaxNode

RECURSIVE SetToSeq(_)
SetToSeq(S) ==
  IF S = {} THEN <<>>
  ELSE LET m == CHOOSE x \in S : \A y \in S : x <= y
       IN <<m>> \o SetToSeq(S \ {m})

\* The partitions' train_nid arrays: non-empty, ascending, distinct ids.
TrainNids == {SetToSeq(S) : S \in (SUBSET (0 .. MaxNode)) \ {{}}}

\* F.rand_shuffle(seed_nodes): a permutation fixed by the generator state.
Shuffle(s, seq) ==
  LET n == Len(seq)
      k == s % n
  IN [i \in 1 .. n |-> seq[((i - 1 + k) % n) + 1]]

Min(a, b) == IF a <= b THEN a ELSE b

\* The parameters a freshly built model gets from the generator.
InitParam(s) == s % 2

Sum(f, S) ==
  LET RECURSIVE Acc(_)
      Acc(T) == IF T = {} THEN 0
                ELSE LET x == CHOOSE x \in T : TRUE
                     IN f[x] + Acc(T \ {x})
  IN Acc(S)

\* A trainer process that has ended: returned, raised, or was terminated.
Exited(r) == pc[r] \in {"done", "failed", "killed"}

\* The positions at which a trainer is running code that can raise.
Running(r) == pc[r] \notin {"unborn", "done", "failed", "killed"}

\* The tensors the graph store serves.
Tensors == {"features", "norm"}

Max(seq) == CHOOSE m \in {seq[i] : i \in DOMAIN seq} :
              \A i \in DOMAIN seq : seq[i] <= m

\* Mutant: the label vector is sub_labels itself, indexed by position.
BuildLabels_Dense(nids, subl) == subl

\* labels = np.zeros(np.max(train_nid) + 1); labels[train_nid] = sub_labels.
\* Entry i of the sequence is the label of node id i - 1.
BuildLabels(nids, subl) ==
  [i \in 1 .. (Max(nids) + 1) |->
     IF \E j \in DOMAIN nids : nids[j] = i - 1
     THEN subl[CHOOSE j \in DOMAIN nids : nids[j] = i - 1]
     ELSE 0]

\* labels[batch_nids]: indexing raises when an id is out of bounds.
InBounds(vec, ids) == \A i \in DOMAIN ids : ids[i] + 1 \in DOMAIN vec
Lookup(vec, ids) == [i \in DOMAIN ids |-> vec[ids[i] + 1]]

\* data.get_feat_from_server(remote_g, t2fid, name): the rows of the store's
\* tensor `name` at the global feature ids of the local nodes.
GetFeatFromServer(name, fids) == [i \in DOMAIN fids |-> store[name][fids[i]]]

\* .cuda(rank): the device a trainer places its tensors on.
Device(r) == r

\* A trainer that holds no fetched tensors, and one that holds no batch labels.
NoFeats == [device |-> 0, features |-> <<>>, norm |-> <<>>]
NoLabel == [ids |-> <<>>, vals |-> <<>>]

\* ------------------------------------------------------------------- Init
\* The state of the launcher, and of the trainers-to-be, when the script starts.
Started ==
  /\ lpc = "start"
  /\ files = <<>>
  /\ procs = <<>>
  /\ labels = [r \in Ranks |-> <<>>]
  /\ feats = [r \in Ranks |-> NoFeats]
  /\ label = [r \in Ranks |-> NoLabel]
  /\ reduced = 0
  /\ pc = [r \in Ranks |-> "unborn"]
  /\ joined = {}
  /\ rng = [r \in Ranks |-> Entropy]
  /\ param = [r \in Ranks |-> 0]
  /\ mom = [r \in Ranks |-> 0]
  /\ grad = [r \in Ranks |-> 0]
  /\ epoch = [r \in Ranks |-> 0]
  /\ step = [r \in Ranks |-> 0]
  /\ order = [r \in Ranks |-> <<>>]
  /\ pos = [r \in Ranks |-> 0]
  /\ nf = [r \in Ranks |-> <<>>]
  /\ nfFwd = [r \in Ranks |-> 0]
  /\ nfBwd = [r \in Ranks |-> 0]
  /\ bwd = [r \in Ranks |-> 0]
  /\ nsteps = [r \in Ranks |-> 0]
  /\ console = [rank |-> 0, kind |-> "none", epoch |-> 0, step |-> 0]

\* One data set: every training node labelled 0, local node i stored at
\* feature row i, every stored value 0, no checkpoint directory yet.
PlainData ==
  /\ subLabels = [r \in Ranks |-> [i \in DOMAIN trainNid[r] |-> 0]]
  /\ t2fid = [r \in Ranks |-> SetToSeq(Nodes)]
  /\ store = [t \in Tensors |-> [f \in Nodes |-> 0]]
  /\ dirOld = "absent"
  /\ ckptDir = FALSE

\* Every device count, epoch count, batch size and partition; one data set.
Init ==
  /\ world \in 1 .. MaxWorld
  /\ nEpochs \in 1 .. MaxEpochs
  /\ batchSize \in 1 .. MaxBatch
  /\ trainNid \in [0 .. (world - 1) -> TrainNids]
  /\ PlainData
  /\ Started

\* Every partition and labelling; one run length, reaching a checkpoint.
InitLabels ==
  /\ world \in 1 .. MaxWorld
  /\ nEpochs = CkptEvery
  /\ batchSize \in 1 .. MaxBatch
  /\ trainNid \in [0 .. (world - 1) -> TrainNids]
  /\ subLabels \in [0 .. (world - 1) -> UNION {[1 .. n -> 0 .. MaxLabel] :
                                                n \in 1 .. (MaxNode + 1)}]
  /\ \A r \in Ranks : Len(subLabels[r]) = Len(trainNid[r])
  /\ t2fid = [r \in Ranks |-> SetToSeq(Nodes)]
  /\ store = [t \in Tensors |-> [f \in Nodes |-> 0]]
  /\ dirOld = "absent"
  /\ ckptDir = FALSE
  /\ Started

\* Every content of the store, every mapping of the local nodes to distinct
\* feature rows, every state of the checkpoint directory; one run length.
InitData ==
  /\ world = MaxWorld
  /\ nEpochs = CkptEvery
  /\ batchSize = MaxBatch
  /\ trainNid = [r \in Ranks |-> SetToSeq(Nodes)]
  /\ subLabels = [r \in Ranks |-> [i \in DOMAIN trainNid[r] |-> 0]]
  /\ t2fid \in [0 .. (world - 1) ->
                  {q \in [1 .. (MaxNode + 1) -> Nodes] :
                     \A i, j \in DOMAIN q : q[i] = q[j] => i = j}]
  /\ store \in [Tensors -> [Nodes -> 0 .. MaxFeat]]
  /\ dirOld \in {"absent", "empty", "entries"}
  /\ ckptDir = (dirOld # "absent")
  /\ Started

\* Partitions of LogEvery + 1 training nodes and batches of one node, so that
\* an epoch passes a logging step; one run length, reaching a checkpoint.
InitLog ==
  /\ world \in 1 .. MaxWorld
  /\ nEpochs = CkptEvery
  /\ batchSize = 1
  /\ trainNid = [r \in Ranks |-> SetToSeq(0 .. LogEvery)]
  /\ PlainData
  /\ Started

\* --------------------------------------------------------------- launcher
\* Mutant: the launcher does not create the directory.
LauncherMkdir_Skip ==
  /\ lpc = "start"
  /\ ckptDir' = ckptDir
  /\ lpc' = "spawn"
  /\ UNCHANGED <<cfg, xvars, files, wvars>>

\* if not os.path.exists(args.ckpt): os.mkdir(args.ckpt)
LauncherMkdir ==
  /\ lpc = "start"
  /\ ckptDir' = IF ~ckptDir THEN TRUE ELSE ckptDir
  /\ lpc' = "spawn"
  /\ UNCHANGED <<cfg, xvars, files, wvars>>

\* Mutant: spawn starts one process fewer than there are devices.
NProcs_OneShort == world - 1

\* nprocs=gpu_num: the number of processes spawn starts.
NProcs == world

\* mp.spawn(trainer, args=(gpu_num, args), nprocs=gpu_num, ...): start them;
\* process i runs trainer(i, gpu_num, args).
LauncherSpawn ==
  /\ lpc = "spawn"
  /\ procs' = [i \in 0 .. (NProcs - 1) |->
                 [rank |-> i, world_size |-> world,
                  args |-> <<nEpochs, batchSize>>]]
  /\ pc' = [r \in Ranks |-> IF r \in DOMAIN procs' THEN "init" ELSE pc[r]]
  /\ lpc' = "join"
  /\ UNCHANGED <<cfg, labels, feats, label, reduced, ckptDir, files, joined,
                 rng, param, mom, grad, epoch,
                 step, order, pos, nf, nfFwd, nfBwd, bwd, nsteps, console>>

\* Mutant: spawn returns once every trainer has ended, whatever its exit.
LauncherJoined_AnyExit ==
  /\ lpc = "join"
  /\ \A r \in Ranks : pc[r] \in {"done", "failed", "killed"}
  /\ lpc' = "success"
  /\ UNCHANGED <<cfg, xvars, ckptDir, files, wvars>>

\* join=True: every trainer has returned; spawn returns.
LauncherJoined ==
  /\ lpc = "join"
  /\ \A r \in Ranks : pc[r] = "done"
  /\ lpc' = "success"
  /\ UNCHANGED <<cfg, xvars, ckptDir, files, wvars>>

\* The trainers whose process ends when `ending` do: its memory (generator,
\* replica, optimizer, sampler, loop variables) is gone with it.
Lost(f, ending, blank) == [r \in Ranks |-> IF r \in ending THEN blank ELSE f[r]]

\* join=True: a trainer ended with an exception; the trainers still alive are
\* terminated and joined, and spawn raises.
LauncherAbort ==
  /\ lpc = "join"
  /\ \E r \in Ranks : pc[r] = "failed"
  /\ LET ending == {r \in Ranks : ~Exited(r)}
     IN /\ pc' = [r \in Ranks |-> IF r \in ending THEN "killed" ELSE pc[r]]
        /\ rng' = Lost(rng, ending, Entropy)
        /\ param' = Lost(param, ending, 0)
        /\ mom' = Lost(mom, ending, 0)
        /\ grad' = Lost(grad, ending, 0)
        /\ epoch' = Lost(epoch, ending, 0)
        /\ step' = Lost(step, ending, 0)
        /\ order' = Lost(order, ending, <<>>)
        /\ pos' = Lost(pos, ending, 0)
        /\ nf' = Lost(nf, ending, <<>>)
        /\ nfFwd' = Lost(nfFwd, ending, 0)
        /\ nfBwd' = Lost(nfBwd, ending, 0)
        /\ labels' = Lost(labels, ending, <<>>)
        /\ feats' = Lost(feats, ending, NoFeats)
        /\ label' = Lost(label, ending, NoLabel)
  /\ lpc' = "error"
  /\ UNCHANGED <<cfg, procs, reduced, ckptDir, files, joined, bwd, nsteps,
                 console>>

\* ---------------------------------------------------------------- trainer
\* init_process: dist.init_process_group(...) announces the rank to the
\* rendezvous and then waits for the whole group.
JoinGroup(r) ==
  /\ pc[r] = "init"
  /\ joined' = joined \cup {r}
  /\ pc' = [pc EXCEPT ![r] = "group"]
  /\ UNCHANGED <<cfg, xvars, lvars, rng, param, mom, grad, epoch, step, order,
                 pos, nf, nfFwd, nfBwd, bwd, nsteps, console>>

\* Mutant: init_process does not seed the generator.
SeedOf_None(r) == Entropy

\* The seed init_process gives the generator.
SeedOf(r) == r

\* init_process: the group is complete; torch.manual_seed(rank).
InitProcess(r) ==
  /\ pc[r] = "group"
  /\ joined = Ranks
  /\ rng' = [rng EXCEPT ![r] = SeedOf(r)]
  /\ pc' = [pc EXCEPT ![r] = "load"]
  /\ UNCHANGED <<cfg, xvars, lvars, joined, param, mom, grad, epoch, step,
                 order, pos, nf, nfFwd, nfBwd, bwd, nsteps, console>>

\* trainer: attach to the graph store, load the rank's partition and build
\* the label vector.
LoadPartition(r) ==
  /\ pc[r] = "load"
  /\ labels' = [labels EXCEPT ![r] = BuildLabels(trainNid[r], subLabels[r])]
  /\ pc' = [pc EXCEPT ![r] = "fetch"]
  /\ UNCHANGED <<cfg, procs, feats, label, reduced, lvars, joined, rng, param,
                 mom, grad, epoch, step, order, pos, nf, nfFwd, nfBwd, bwd,
                 nsteps, console>>

\* Mutant: a fetch consumes the first row it reads from the features tensor.
FetchFeatures_Write(r) ==
  /\ pc[r] = "fetch"
  /\ feats' = [feats EXCEPT ![r] =
                 [device |-> Device(r),
                  features |-> GetFeatFromServer("features", t2fid[r]),
                  norm |-> GetFeatFromServer("norm", t2fid[r])]]
  /\ store' = [store EXCEPT !["features"][t2fid[r][1]] = 0]
  /\ pc' = [pc EXCEPT ![r] = "build"]
  /\ UNCHANGED <<world, nEpochs, batchSize, trainNid, subLabels, t2fid, dirOld,
                 procs, labels, label, reduced, lvars, joined, rng, param, mom,
                 grad, epoch, step, order, pos, nf, nfFwd, nfBwd, bwd, nsteps,
                 console>>

\* trainer: fetch features and norm from the store onto the device.
FetchFeatures(r) ==
  /\ pc[r] = "fetch"
  /\ feats' = [feats EXCEPT ![r] =
                 [device |-> Device(r),
                  features |-> GetFeatFromServer("features", t2fid[r]),
                  norm |-> GetFeatFromServer("norm", t2fid[r])]]
  /\ pc' = [pc EXCEPT ![r] = "build"]
  /\ UNCHANGED <<cfg, procs, labels, label, reduced, lvars, joined, rng,
                 param, mom, grad, epoch, step, order, pos, nf, nfFwd, nfBwd,
                 bwd, nsteps, console>>

\* trainer: build the model (its parameters drawn from the generator), the
\* loss and the Adam optimizer.
BuildModel(r) ==
  /\ pc[r] = "build"
  /\ \E s \in Draw(rng[r]) :
       /\ param' = [param EXCEPT ![r] = InitParam(s)]
       /\ rng' = [rng EXCEPT ![r] = Advance(s)]
  /\ mom' = [mom EXCEPT ![r] = 0]
  /\ pc' = [pc EXCEPT ![r] = "ddp"]
  /\ UNCHANGED <<cfg, xvars, lvars, joined, grad, epoch, step, order, pos, nf,
                 nfFwd, nfBwd, bwd, nsteps, console>>

\* Mutant: the wrapper leaves every replica with the parameters it built.
Broadcast_None(r) == param[r]

\* The parameters replica r holds once DistributedDataParallel has wrapped
\* the model: rank 0's, broadcast to the group.
Broadcast(r) == param[0]

\* model = DistributedDataParallel(model, ...): a collective of the group.
DDPWrap ==
  /\ \A r \in Ranks : pc[r] = "ddp"
  /\ param' = [r \in Ranks |-> Broadcast(r)]
  /\ pc' = [r \in Ranks |-> "epoch"]
  /\ UNCHANGED <<cfg, xvars, lvars, joined, rng, mom, grad, epoch, step, order,
                 pos, nf, nfFwd, nfBwd, bwd, nsteps, console>>

\* Mutant: the sampler is created once, before the epoch loop.
EpochStart_NoRestart(r) ==
  /\ pc[r] = "epoch"
  /\ epoch[r] < nEpochs
  /\ step' = [step EXCEPT ![r] = 0]
  /\ IF epoch[r] = 0
     THEN /\ \E s \in Draw(rng[r]) :
               /\ order' = [order EXCEPT ![r] = Shuffle(s, trainNid[r])]
               /\ rng' = [rng EXCEPT ![r] = Advance(s)]
          /\ pos' = [pos EXCEPT ![r] = 0]
     ELSE UNCHANGED <<order, rng, pos>>
  /\ pc' = [pc EXCEPT ![r] = "sample"]
  /\ UNCHANGED <<cfg, xvars, lvars, joined, param, mom, grad, epoch, nf, nfFwd,
                 nfBwd, bwd, nsteps, console>>

\* for epoch in range(args.n_epochs): one more epoch; step = 0 and a new
\* NeighborSampler over train_nid, shuffled.
EpochStart(r) ==
  /\ pc[r] = "epoch"
  /\ epoch[r] < nEpochs
  /\ step' = [step EXCEPT ![r] = 0]
  /\ \E s \in Draw(rng[r]) :
       /\ order' = [order EXCEPT ![r] = Shuffle(s, trainNid[r])]
       /\ rng' = [rng EXCEPT ![r] = Advance(s)]
  /\ pos' = [pos EXCEPT ![r] = 0]
  /\ pc' = [pc EXCEPT ![r] = "sample"]
  /\ UNCHANGED <<cfg, xvars, lvars, joined, param, mom, grad, epoch, nf, nfFwd,
                 nfBwd, bwd, nsteps, console>>

\* for epoch in range(args.n_epochs): exhausted; trainer returns.
Finish(r) ==
  /\ pc[r] = "epoch"
  /\ epoch[r] >= nEpochs
  /\ pc' = [pc EXCEPT ![r] = "done"]
  /\ UNCHANGED <<cfg, xvars, lvars, joined, rng, param, mom, grad, epoch, step,
                 order, pos, nf, nfFwd, nfBwd, bwd, nsteps, console>>

\* The seed nodes of the node flow the sampler hands out next.
NextFlow(r) ==
  SubSeq(order[r], pos[r] + 1, Min(pos[r] + batchSize, Len(order[r])))

\* Mutant: the ids of the last layer within the node flow.
BatchNids_Local(flow) == [i \in DOMAIN flow |-> i - 1]

\* batch_nids = nf.layer_parent_nid(-1): the ids, in the partition's graph, of
\* the node flow's last layer, which holds its seed nodes.
BatchNids(flow) == [i \in DOMAIN flow |-> flow[i]]

\* for nf in NeighborSampler(...): the next node flow, over the next
\* batch_size seed nodes, and its labels; or the end of the sequence.
\* The label lookup raises on an id out of bounds (see Fail).
Sample(r) ==
  /\ pc[r] = "sample"
  /\ IF pos[r] < Len(order[r])
     THEN LET last == Min(pos[r] + batchSize, Len(order[r]))
              ids == BatchNids(NextFlow(r))
          IN /\ InBounds(labels[r], ids)
             /\ nf' = [nf EXCEPT ![r] = NextFlow(r)]
             /\ label' = [label EXCEPT ![r] =
                            [ids |-> ids, vals |-> Lookup(labels[r], ids)]]
             /\ pos' = [pos EXCEPT ![r] = last]
             /\ nfFwd' = [nfFwd EXCEPT ![r] = 0]
             /\ nfBwd' = [nfBwd EXCEPT ![r] = 0]
             /\ pc' = [pc EXCEPT ![r] = "forward"]
     ELSE /\ pc' = [pc EXCEPT ![r] = "epoch_end"]
          /\ UNCHANGED <<nf, label, pos, nfFwd, nfBwd>>
  /\ UNCHANGED <<cfg, procs, labels, feats, reduced, lvars, joined, rng,
                 param, mom, grad, epoch, step, order, bwd, nsteps, console>>

\* pred = model(nf); loss = loss_fcn(pred, label)
Forward(r) ==
  /\ pc[r] = "forward"
  /\ nfFwd' = [nfFwd EXCEPT ![r] = @ + 1]
  /\ pc' = [pc EXCEPT ![r] = "zero_grad"]
  /\ UNCHANGED <<cfg, xvars, lvars, joined, rng, param, mom, grad, epoch, step,
                 order, pos, nf, nfBwd, bwd, nsteps, console>>

\* Mutant: the loop does not reset the gradients.
ZeroGrad_Skip(r) ==
  /\ pc[r] = "zero_grad"
  /\ grad' = grad
  /\ pc' = [pc EXCEPT ![r] = "backward"]
  /\ UNCHANGED <<cfg, xvars, lvars, joined, rng, param, mom, epoch, step, order,
                 pos, nf, nfFwd, nfBwd, bwd, nsteps, console>>

\* optimizer.zero_grad()
ZeroGrad(r) ==
  /\ pc[r] = "zero_grad"
  /\ grad' = [grad EXCEPT ![r] = 0]
  /\ pc' = [pc EXCEPT ![r] = "backward"]
  /\ UNCHANGED <<cfg, xvars, lvars, joined, rng, param, mom, epoch, step, order,
                 pos, nf, nfFwd, nfBwd, bwd, nsteps, console>>

\* Mutant: the all-reduce returns as soon as one rank has entered it.
Awaited_Self == {r \in Ranks : pc[r] = "allreduce"}

\* The ranks the all-reduce waits for.
Awaited == Ranks

\* The result of the all-reduce over the gradients g: the group's average.
Reduced(g) == Sum(g, Ranks) \div world

\* loss.backward(): the node flow's gradient is added to .grad, and the
\* replica enters the gradient all-reduce; once every rank of the group has
\* entered it the collective writes its result into the .grad buffers of
\* the ranks in it.
Backward(r) ==
  /\ pc[r] = "backward"
  /\ pc' = [pc EXCEPT ![r] = "allreduce"]
  /\ \E g \in 0 .. MaxGrad :
       LET local == [grad EXCEPT ![r] = @ + g]
       IN IF \A q \in Awaited \ {r} : pc[q] = "allreduce" /\ bwd[q] = bwd[r] + 1
          THEN /\ grad' = [q \in Ranks |-> IF pc'[q] = "allreduce"
                                            THEN Reduced(local)
                                            ELSE local[q]]
               /\ reduced' = bwd[r] + 1
          ELSE /\ grad' = local
               /\ reduced' = reduced
  /\ nfBwd' = [nfBwd EXCEPT ![r] = @ + 1]
  /\ bwd' = [bwd EXCEPT ![r] = @ + 1]
  /\ UNCHANGED <<cfg, procs, labels, feats, label, lvars, joined, rng, param,
                 mom, epoch, step, order, pos, nf, nfFwd, nsteps, console>>

\* Mutant: loss.backward() returns without waiting for the other ranks.
AllReduce_NoWait(r) ==
  /\ pc[r] = "allreduce"
  /\ pc' = [pc EXCEPT ![r] = "step"]
  /\ UNCHANGED <<cfg, xvars, lvars, joined, rng, param, mom, grad, epoch, step,
                 order, pos, nf, nfFwd, nfBwd, bwd, nsteps, console>>

\* loss.backward() under DistributedDataParallel returns on rank r: the
\* all-reduce this rank entered has been entered by every rank.
AllReduce(r) ==
  /\ pc[r] = "allreduce"
  /\ reduced = bwd[r]
  /\ pc' = [pc EXCEPT ![r] = "step"]
  /\ UNCHANGED <<cfg, xvars, lvars, joined, rng, param, mom, grad, epoch, step,
                 order, pos, nf, nfFwd, nfBwd, bwd, nsteps, console>>

\* Adam: the moment estimate after a step with gradient g.
AdamMoment(m, g) == (m + g) % 2

\* Adam: the parameters after a step with moment estimate m.
AdamParam(p, m) == (p + m) % 2

\* Mutant: the per-batch line is printed on every rank.
LogCond_AnyRank(r, s) == s % LogEvery = 0

\* rank == 0 and step % 20 == 0
LogCond(r, s) == r = 0 /\ s % LogEvery = 0

\* Mutant: the checkpoint block is indented into the batch loop.
OptimizerStep_ThenCkpt(r) ==
  /\ pc[r] = "step"
  /\ mom' = [mom EXCEPT ![r] = AdamMoment(mom[r], grad[r])]
  /\ param' = [param EXCEPT ![r] = AdamParam(param[r], mom'[r])]
  /\ step' = [step EXCEPT ![r] = @ + 1]
  /\ nsteps' = [nsteps EXCEPT ![r] = @ + 1]
  /\ nf' = [nf EXCEPT ![r] = <<>>]
  /\ label' = [label EXCEPT ![r] = NoLabel]
  /\ console' = console
  /\ pc' = [pc EXCEPT ![r] = "ckpt"]
  /\ UNCHANGED <<cfg, procs, labels, feats, reduced, lvars, joined, rng, grad,
                 epoch, order, pos, nfFwd, nfBwd, bwd>>

\* optimizer.step(); step += 1; the per-batch line every 20 steps on rank 0.
OptimizerStep(r) ==
  /\ pc[r] = "step"
  /\ mom' = [mom EXCEPT ![r] = AdamMoment(mom[r], grad[r])]
  /\ param' = [param EXCEPT ![r] = AdamParam(param[r], mom'[r])]
  /\ step' = [step EXCEPT ![r] = @ + 1]
  /\ nsteps' = [nsteps EXCEPT ![r] = @ + 1]
  /\ nf' = [nf EXCEPT ![r] = <<>>]
  /\ console' = IF LogCond(r, step'[r])
                THEN [rank |-> r, kind |-> "batch", epoch |-> epoch[r] + 1,
                      step |-> step'[r]]
                ELSE console
  /\ label' = [label EXCEPT ![r] = NoLabel]
  /\ pc' = [pc EXCEPT ![r] = "sample"]
  /\ UNCHANGED <<cfg, procs, labels, feats, reduced, lvars, joined, rng, grad,
                 epoch, order, pos, nfFwd, nfBwd, bwd>>

\* if rank == 0: the per-epoch timing line.
EpochEnd(r) ==
  /\ pc[r] = "epoch_end"
  /\ console' = IF r = 0
                THEN [rank |-> r, kind |-> "epoch", epoch |-> epoch[r] + 1,
                      step |-> step[r]]
                ELSE console
  /\ pc' = [pc EXCEPT ![r] = "ckpt"]
  /\ UNCHANGED <<cfg, xvars, lvars, joined, rng, param, mom, grad, epoch, step,
                 order, pos, nf, nfFwd, nfBwd, bwd, nsteps>>

\* Mutant: the test forgets the rank.
SaveCond_AnyRank(r, e) == (e + 1) % CkptEvery = 0

\* (epoch + 1) % 5 == 0 and rank == 0
SaveCond(r, e) == (e + 1) % CkptEvery = 0 /\ r = 0

\* Mutant: the file name does not carry the epoch.
FilePath_Const(e) == CkptEvery

\* os.path.join(args.ckpt, 'gcn-nssc_{}'.format(epoch + 1)), as its key.
FilePath(e) == e + 1

\* Mutant: after a checkpoint epoch the other ranks wait for the file.
Checkpoint_Barrier(r) ==
  /\ pc[r] = "ckpt"
  /\ IF SaveCond(r, epoch[r])
     THEN /\ ckptDir
          /\ files' = [p \in DOMAIN files \cup {FilePath(epoch[r])} |->
                         IF p = FilePath(epoch[r])
                         THEN [rank |-> r, complete |-> FALSE, data |-> 0]
                         ELSE files[p]]
          /\ pc' = [pc EXCEPT ![r] = "saving"]
          /\ UNCHANGED epoch
     ELSE /\ (epoch[r] + 1) % CkptEvery = 0
               => /\ FilePath(epoch[r]) \in DOMAIN files
                  /\ files[FilePath(epoch[r])].complete
          /\ epoch' = [epoch EXCEPT ![r] = @ + 1]
          /\ pc' = [pc EXCEPT ![r] = "epoch"]
          /\ UNCHANGED files
  /\ UNCHANGED <<cfg, xvars, lpc, ckptDir, joined, rng, param, mom, grad, step,
                 order, pos, nf, nfFwd, nfBwd, bwd, nsteps, console>>

\* The checkpoint test; torch.save opens the file and starts writing, or
\* the loop moves on to the next epoch.
Checkpoint(r) ==
  /\ pc[r] = "ckpt"
  /\ IF SaveCond(r, epoch[r])
     THEN /\ ckptDir
          /\ files' = [p \in DOMAIN files \cup {FilePath(epoch[r])} |->
                         IF p = FilePath(epoch[r])
                         THEN [rank |-> r, complete |-> FALSE, data |-> 0]
                         ELSE files[p]]
          /\ pc' = [pc EXCEPT ![r] = "saving"]
          /\ UNCHANGED epoch
     ELSE /\ epoch' = [epoch EXCEPT ![r] = @ + 1]
          /\ pc' = [pc EXCEPT ![r] = "epoch"]
          /\ UNCHANGED files
  /\ UNCHANGED <<cfg, xvars, lpc, ckptDir, joined, rng, param, mom, grad, step,
                 order, pos, nf, nfFwd, nfBwd, bwd, nsteps, console>>

\* torch.save(model.module, filepath) completes; on to the next epoch.
FinishSave(r) ==
  /\ pc[r] = "saving"
  /\ files' = [files EXCEPT ![FilePath(epoch[r])] =
                 [rank |-> r, complete |-> TRUE, data |-> param[r]]]
  /\ epoch' = [epoch EXCEPT ![r] = @ + 1]
  /\ pc' = [pc EXCEPT ![r] = "epoch"]
  /\ UNCHANGED <<cfg, xvars, lpc, ckptDir, joined, rng, param, mom, grad, step,
                 order, pos, nf, nfFwd, nfBwd, bwd, nsteps, console>>

\* Any statement of trainer raises: nothing catches it, the process ends.
Fail(r) ==
  /\ Running(r)
  /\ pc' = [pc EXCEPT ![r] = "failed"]
  /\ rng' = Lost(rng, {r}, Entropy)
  /\ param' = Lost(param, {r}, 0)
  /\ mom' = Lost(mom, {r}, 0)
  /\ grad' = Lost(grad, {r}, 0)
  /\ epoch' = Lost(epoch, {r}, 0)
  /\ step' = Lost(step, {r}, 0)
  /\ order' = Lost(order, {r}, <<>>)
  /\ pos' = Lost(pos, {r}, 0)
  /\ nf' = Lost(nf, {r}, <<>>)
  /\ nfFwd' = Lost(nfFwd, {r}, 0)
  /\ nfBwd' = Lost(nfBwd, {r}, 0)
  /\ labels' = Lost(labels, {r}, <<>>)
  /\ feats' = Lost(feats, {r}, NoFeats)
  /\ label' = Lost(label, {r}, NoLabel)
  /\ UNCHANGED <<cfg, procs, reduced, lvars, joined, bwd, nsteps, console>>

\* --------------------------------------------------------- specifications
\* A run in which no statement raises.
NextNoFail ==
  \/ LauncherMkdir
  \/ LauncherSpawn
  \/ LauncherJoined
  \/ DDPWrap
  \/ \E r \in Ranks : JoinGroup(r)
  \/ \E r \in Ranks : InitProcess(r)
  \/ \E r \in Ranks : LoadPartition(r)
  \/ \E r \in Ranks : FetchFeatures(r)
  \/ \E r \in Ranks : BuildModel(r)
  \/ \E r \in Ranks : EpochStart(r)
  \/ \E r \in Ranks : Finish(r)
  \/ \E r \in Ranks : Sample(r)
  \/ \E r \in Ranks : Forward(r)
  \/ \E r \in Ranks : ZeroGrad(r)
  \/ \E r \in Ranks : Backward(r)
  \/ \E r \in Ranks : AllReduce(r)
  \/ \E r \in Ranks : OptimizerStep(r)
  \/ \E r \in Ranks : EpochEnd(r)
  \/ \E r \in Ranks : Checkpoint(r)
  \/ \E r \in Ranks : FinishSave(r)

Next ==
  \/ NextNoFail
  \/ LauncherAbort
  \/ \E r \in Ranks : Fail(r)

Spec == Init /\ [][Next]_vars

SpecNoFail == Init /\ [][NextNoFail]_vars

\* The runs over every partition and labelling.
SpecLabels == InitLabels /\ [][Next]_vars

\* The runs over every store content and checkpoint directory.
SpecData == InitData /\ [][Next]_vars

\* The runs whose epochs are long enough to reach a logging step.
SpecLog == InitLog /\ [][Next]_vars

\* ------------------------------------------------------------ properties
\* A trainer whose process has been ended by an exception or by the launcher.
Dead(r) == pc[r] \in {"failed", "killed"}

\* A trainer that holds a wrapped replica: it is inside the training loop or
\* has returned from it.
Wrapped(r) ==
  pc[r] \in {"epoch", "sample", "forward", "zero_grad", "backward",
             "allreduce", "step", "epoch_end", "ckpt", "saving", "done"}

\* C1: a checkpoint is written only by rank 0 and only at the end of an epoch
\* whose index satisfies (epoch + 1) % 5 = 0: every file ever opened was
\* opened by rank 0 under a name that is a multiple of 5, and whoever is
\* writing is rank 0, at such an epoch, with its sampler exhausted.
C1_CheckpointOnlyRank0Every5 ==
  /\ \A p \in DOMAIN files : files[p].rank = 0 /\ p % 5 = 0
  /\ \A r \in Ranks :
       pc[r] = "saving" =>
         /\ r = 0
         /\ (epoch[r] + 1) % 5 = 0
         /\ pos[r] = Len(order[r])

\* C1 witness: two trainers, the checkpoint of epoch index 4 is on disk and
\* rank 1 has passed that epoch without writing.
C1_Witness ==
  /\ world = 2
  /\ 5 \in DOMAIN files
  /\ files[5].complete
  /\ pc[1] = "sample"
  /\ epoch[1] = 5

\* C2: replicas that have done the same number of synchronized optimizer
\* steps hold identical parameters, although each built its model from a
\* generator seeded with its own rank.
C2_ReplicasInSync ==
  \A r1, r2 \in Ranks :
    (Wrapped(r1) /\ Wrapped(r2) /\ nsteps[r1] = nsteps[r2])
      => param[r1] = param[r2]

\* C2 witness: both replicas have done two steps and hold the same
\* parameters; rank 0 has entered the third all-reduce with a non-zero local
\* gradient while rank 1 is about to run its backward pass; the parameters
\* the two seeds give differ.
C2_Witness ==
  /\ world = 2
  /\ InitParam(0) # InitParam(1)
  /\ nsteps[0] = 2 /\ nsteps[1] = 2
  /\ pc[0] = "allreduce" /\ pc[1] = "backward"
  /\ grad[0] # grad[1]
  /\ param[0] = param[1]

\* C3 as stated: the all-reduce is a barrier (nobody does its k-th optimizer
\* step before everybody has begun its k-th backward pass), and a trainer
\* blocked in it while some trainer has failed short of that backward pass
\* stays blocked there for ever.
C3_BlockedForever ==
  [][\A r \in Ranks :
       /\ nsteps'[r] > nsteps[r] => \A q \in Ranks : bwd[q] >= nsteps'[r]
       /\ (/\ pc[r] = "allreduce"
           /\ \E f \in Ranks : pc[f] = "failed" /\ bwd[f] < bwd[r])
            => pc'[r] \in {"allreduce", "failed"}]_vars

\* C3 amended: the all-reduce is a barrier, and a trainer leaves it only
\* because every rank has entered it, or because it raises itself, or
\* because the launcher terminates it after some trainer has failed; it has
\* no timeout.
C3_Barrier ==
  [][\A r \in Ranks :
       /\ nsteps'[r] > nsteps[r] => \A q \in Ranks : bwd[q] >= nsteps'[r]
       /\ (pc[r] = "allreduce" /\ pc'[r] # "allreduce")
            => \/ pc'[r] = "step" /\ \A q \in Ranks : bwd[q] >= bwd[r]
               \/ pc'[r] = "failed"
               \/ /\ pc'[r] = "killed"
                  /\ \E f \in Ranks : pc[f] = "failed"
                  /\ lpc' = "error"]_vars

\* C3 witness: rank 1 failed before its second backward pass; rank 0 had
\* entered the second all-reduce and was terminated there by the launcher.
C3_Witness ==
  /\ world = 2
  /\ pc[1] = "failed" /\ bwd[1] = 1
  /\ pc[0] = "killed" /\ bwd[0] = 2 /\ nsteps[0] = 1
  /\ lpc = "error"

\* The order of the training loop: the positions that may follow a position.
LoopOrder(from) ==
  CASE from = "epoch" -> {"sample", "done"}
    [] from = "sample" -> {"forward", "epoch_end"}
    [] from = "forward" -> {"zero_grad"}
    [] from = "zero_grad" -> {"backward"}
    [] from = "backward" -> {"allreduce"}
    [] from = "allreduce" -> {"step"}
    [] from = "step" -> {"sample"}
    [] from = "epoch_end" -> {"ckpt"}
    [] from = "ckpt" -> {"saving", "epoch"}
    [] from = "saving" -> {"epoch"}
    [] OTHER -> {}

\* C4: inside the loop a trainer moves epoch-start, (sample, forward,
\* backward, step)*, epoch-end, checkpoint test, next epoch-start; the
\* sampler's sequence ends only when its seeds are used up; an optimizer
\* step comes after exactly one forward and one backward pass of the node
\* flow sampled for it, which stays the same from its sampling to the step
\* and is made of seeds not handed out before in the epoch; the checkpoint
\* files change only between epochs.
C4_LoopOrder ==
  [][\A r \in Ranks :
       /\ (Wrapped(r) /\ pc'[r] # pc[r] /\ pc'[r] \notin {"failed", "killed"})
            => pc'[r] \in LoopOrder(pc[r])
       /\ (pc[r] = "sample" /\ pc'[r] = "epoch_end")
            => pos[r] = Len(order[r])
       /\ (pc[r] = "sample" /\ pc'[r] = "forward")
            => /\ nf'[r] = SubSeq(order[r], pos[r] + 1, pos'[r])
               /\ pos'[r] > pos[r]
               /\ nfFwd'[r] = 0 /\ nfBwd'[r] = 0
       /\ (pc[r] \in {"forward", "zero_grad", "backward", "allreduce"}
             /\ pc'[r] \notin {"failed", "killed"})
            => nf'[r] = nf[r] /\ pos'[r] = pos[r]
       /\ nsteps'[r] > nsteps[r]
            => /\ pc[r] = "step"
               /\ nf[r] # <<>>
               /\ nfFwd[r] = 1 /\ nfBwd[r] = 1
               /\ nf'[r] = <<>>
       /\ (files' # files /\ r = 0)
            => /\ pc[r] \in {"ckpt", "saving"}
               /\ pos[r] = Len(order[r])
               /\ nf[r] = <<>>
               /\ pc'[r] \in {"saving", "epoch"}]_vars

\* C4 witness: rank 0 is about to do the second optimizer step of epoch
\* index 5, after one forward and one backward pass of its node flow, the
\* checkpoint of the epoch before being on disk.
C4_Witness ==
  /\ world = 2
  /\ pc[0] = "step"
  /\ epoch[0] = 5 /\ step[0] = 1
  /\ nfFwd[0] = 1 /\ nfBwd[0] = 1 /\ Len(nf[0]) = 1
  /\ 5 \in DOMAIN files /\ files[5].complete

\* ceil(n / b)
Ceil(n, b) == CHOOSE k \in 0 .. n : k * b >= n /\ (k - 1) * b < n

\* C5: without failures every run ends with every trainer returned after
\* n_epochs epochs, whatever the partitions' sizes: a state in which not all
\* trainers have returned has a next step, and a trainer that has returned
\* has run n_epochs epochs.
C5_AllTrainersFinish ==
  /\ \A r \in Ranks : pc[r] = "done" => epoch[r] = nEpochs
  /\ (\A r \in Ranks : pc[r] = "done") \/ ENABLED NextNoFail

\* C6: a trainer that has come to the end of an epoch has done
\* ceil(train nodes / batch_size) optimizer steps in it, one per node flow,
\* and between epochs and at its return it has done that many for every
\* epoch it has run.
C6_StepsPerEpoch ==
  \A r \in Ranks :
    LET n == Ceil(Len(trainNid[r]), batchSize)
    IN /\ pc[r] \in {"epoch_end", "ckpt", "saving"} => step[r] = n
       /\ pc[r] \in {"epoch", "done"} => nsteps[r] = epoch[r] * n
       /\ pc[r] = "done" => nsteps[r] = nEpochs * n

\* C6 witness: two trainers with two training nodes each and batch size 1
\* have returned from three epochs of two steps.
C6_Witness ==
  /\ world = 2 /\ batchSize = 1 /\ nEpochs = 3
  /\ \A r \in Ranks :
       Len(trainNid[r]) = 2 /\ pc[r] = "done" /\ nsteps[r] = 6 /\ step[r] = 2

C8_NobodyWaitsForCheckpoint ==
  /\ Cardinality({r \in Ranks : pc[r] = "saving"}) <= 1
  /\ \A w \in Ranks :
       pc[w] = "saving" =>
         \A r \in Ranks \ {w} :
           pc[r] \in {"epoch_end", "ckpt", "epoch", "sample", "forward",
                      "zero_grad", "backward"}
             => ENABLED (\/ EpochEnd(r) \/ Checkpoint(r) \/ EpochStart(r)
                         \/ Finish(r) \/ Sample(r) \/ Forward(r)
                         \/ ZeroGrad(r) \/ Backward(r))

\* C8 witness: rank 0 is still writing the checkpoint of epoch index 4 while
\* rank 1 has sampled and run the forward pass of the first node flow of
\* epoch index 5.
C8_Witness ==
  /\ world = 2
  /\ pc[0] = "saving" /\ epoch[0] = 4 /\ ~files[5].complete
  /\ epoch[1] = 5 /\ pc[1] = "zero_grad" /\ nfFwd[1] = 1

\* C9: checkpoint files are keyed by the epoch number, a multiple of 5 up to
\* n_epochs; opening one adds a new file and never touches another, and a
\* finished file never changes; a file is finished with the parameters rank
\* 0 holds after all optimizer steps of the epoch of its key, which only an
\* optimizer step changes; when rank 0 returns there are floor(n_epochs / 5)
\* files, all finished.
C9_CheckpointFiles ==
  [][/\ \A p \in DOMAIN files' : p \in 1 .. nEpochs /\ p % 5 = 0
     /\ \A p \in DOMAIN files :
          /\ p \in DOMAIN files'
          /\ files'[p] # files[p] => ~files[p].complete /\ files'[p].complete
          /\ (~files[p].complete /\ files'[p].complete)
               => /\ pc[0] = "saving" /\ epoch[0] + 1 = p
                  /\ nsteps[0] = p * Ceil(Len(trainNid[0]), batchSize)
                  /\ files'[p].data = param[0]
     /\ \A p \in DOMAIN files' \ DOMAIN files :
          /\ DOMAIN files' = DOMAIN files \cup {p}
          /\ ~files'[p].complete
     /\ (param'[0] # param[0] /\ pc'[0] \notin {"failed", "killed"})
          => pc[0] \in {"build", "ddp", "step"}
     /\ pc'[0] = "done"
          => /\ Cardinality(DOMAIN files') = nEpochs \div 5
             /\ \A p \in DOMAIN files' : files'[p].complete]_vars

\* C9 witness: a run of 10 epochs of two trainers has ended and left the
\* finished checkpoints of epochs 5 and 10.
C9_Witness ==
  /\ world = 2 /\ nEpochs = 10
  /\ lpc = "success"
  /\ DOMAIN files = {5, 10}
  /\ files[5].complete /\ files[10].complete

RECURSIVE AdvanceN(_, _)
\* The generator's state n draws after state s.
AdvanceN(s, n) == IF n = 0 THEN s ELSE AdvanceN(Advance(s), n - 1)

\* The positions inside an epoch: the epoch's sampler exists.
InEpoch(r) ==
  pc[r] \in {"sample", "forward", "zero_grad", "backward", "allreduce",
             "step", "epoch_end", "ckpt", "saving"}

\* C10: once init_process has run, the generator state of a trainer is a
\* function of its rank and of the number of draws made since (one for the
\* model, one per sampler), starting from the seed equal to the rank; so the
\* seed-node order of every epoch is a function of the rank, the training
\* nodes and the epoch alone, the same in every run.
C10_SeedIsRank ==
  \A r \in Ranks :
    /\ pc[r] \in {"load", "fetch", "build"} => rng[r] = r
    /\ (pc[r] = "ddp" \/ Wrapped(r))
         => rng[r] = AdvanceN(r, 1 + epoch[r] + (IF InEpoch(r) THEN 1 ELSE 0))
    /\ InEpoch(r)
         => order[r] = Shuffle(AdvanceN(r, 1 + epoch[r]), trainNid[r])

\* C10 witness: rank 1 runs its second epoch over two training nodes, in an
\* order that differs from the first epoch's.
C10_Witness ==
  /\ world = 2
  /\ pc[1] = "forward" /\ epoch[1] = 1
  /\ trainNid[1] = <<0, 1>>
  /\ order[1] = <<1, 0>>

\* A trainer that has built its label vector and still holds it.
Loaded(r) == pc[r] \notin {"unborn", "init", "group", "load", "failed", "killed"}

\* The training node ids of rank r.
TrainSet(r) == {trainNid[r][j] : j \in DOMAIN trainNid[r]}

\* C11: the label vector a trainer has built has length max(train_nid) + 1,
\* holds at every training node id the label loaded for that node and holds
\* zero at every other index.
C11_LabelVector ==
  \A r \in Ranks :
    Loaded(r) =>
      /\ Len(labels[r]) - 1 \in TrainSet(r)
      /\ \A n \in TrainSet(r) : n < Len(labels[r])
      /\ \A j \in DOMAIN trainNid[r] :
           labels[r][trainNid[r][j] + 1] = subLabels[r][j]
      /\ \A i \in DOMAIN labels[r] :
           (i - 1) \notin TrainSet(r) => labels[r][i] = 0

\* C11 witness: rank 1 trains on node 1 alone, labelled 1; its label vector
\* has two entries, zero for node 0.
C11_Witness ==
  /\ world = 2
  /\ pc[1] = "fetch"
  /\ trainNid[1] = <<1>> /\ subLabels[1] = <<1>>
  /\ labels[1] = <<0, 1>>

\* A trainer that has fetched its tensors and still holds them.
Fetched(r) ==
  pc[r] \notin {"unborn", "init", "group", "load", "fetch", "failed", "killed"}

\* C12: before the spawn there is no trainer; the spawn starts exactly
\* world processes, process i being trainer(i, world, args) with the same
\* args for all; a trainer places its tensors on the device whose index is
\* its rank; and the launcher has ended (spawn returned or raised) only when
\* every trainer has ended.
C12_SpawnAndJoin ==
  /\ lpc \in {"start", "spawn"}
       => procs = <<>> /\ \A r \in Ranks : pc[r] = "unborn"
  /\ lpc \notin {"start", "spawn"}
       => /\ DOMAIN procs = 0 .. (world - 1)
          /\ \A i \in DOMAIN procs :
               /\ procs[i].rank = i
               /\ procs[i].world_size = world
               /\ procs[i].args = <<nEpochs, batchSize>>
          /\ \A r \in Ranks : pc[r] # "unborn"
  /\ \A r \in Ranks : Fetched(r) => feats[r].device = r
  /\ lpc \in {"success", "error"} => \A r \in Ranks : Exited(r)

\* C12 witness: two trainers were spawned with ranks 0 and 1, rank 1 used
\* device 1, both returned and the launcher's spawn returned.
C12_Witness ==
  /\ world = 2
  /\ DOMAIN procs = {0, 1} /\ procs[1].rank = 1 /\ procs[1].world_size = 2
  /\ feats[1].device = 1
  /\ pc[0] = "done" /\ pc[1] = "done"
  /\ lpc = "success"

\* C13: no step of the launcher or of a trainer changes the store, and the
\* tensors a trainer holds are the store's rows at the global feature ids of
\* its local nodes, so two trainers hold equal values for one feature id.
C13_StoreReadOnly ==
  /\ [][store' = store]_vars
  /\ [](\A r \in Ranks : \A t \in Tensors :
          Fetched(r) =>
            /\ \A i \in DOMAIN t2fid[r] :
                 feats[r][t][i] = store[t][t2fid[r][i]]
            /\ \A q \in Ranks :
                 Fetched(q) =>
                   \A i \in DOMAIN t2fid[r] : \A j \in DOMAIN t2fid[q] :
                     t2fid[r][i] = t2fid[q][j]
                       => feats[r][t][i] = feats[q][t][j])

\* C13 witness: the two trainers map their local nodes to the feature rows
\* in opposite orders, the rows differ, and both have run to the end holding
\* the rows in their own order.
C13_Witness ==
  /\ world = 2
  /\ t2fid[0] = <<0, 1>> /\ t2fid[1] = <<1, 0>>
  /\ store["features"][0] = 0 /\ store["features"][1] = 1
  /\ pc[0] = "done" /\ pc[1] = "done"
  /\ feats[0].features = <<0, 1>> /\ feats[1].features = <<1, 0>>

\* C14: the directory exists as soon as a trainer has been spawned, hence
\* whenever a checkpoint file is being written; it comes into existence only
\* by the launcher's first step, when it was absent, and stays; what it held
\* before the run is never changed, nor does the launcher touch its files.
C14_CheckpointDir ==
  /\ []((\E r \in Ranks : pc[r] # "unborn") => ckptDir)
  /\ [](\A r \in Ranks : pc[r] = "saving" => ckptDir)
  /\ [][/\ ckptDir => ckptDir'
        /\ ckptDir' # ckptDir => lpc = "start" /\ dirOld = "absent"
        /\ dirOld' = dirOld
        /\ lpc = "start" => files' = files]_vars

\* C14 witness: the directory was absent when the script started and rank 0
\* is writing the first checkpoint into it.
C14_Witness ==
  /\ dirOld = "absent"
  /\ ckptDir
  /\ pc[0] = "saving" /\ CkptEvery \in DOMAIN files

\* The step in which trainer r completes a mini-batch, and the one in which
\* it leaves the batch loop of an epoch.
BatchDone(r) == nsteps'[r] = nsteps[r] + 1
EpochDone(r) == pc[r] = "epoch_end" /\ pc'[r] = "ckpt"

\* The mini-batches of the current epoch trainer r has been handed.
BatchesIn(r) == Ceil(pos[r], batchSize)

\* C15: the console changes only by a line of rank 0; rank 0 prints the
\* per-batch line exactly when it completes a mini-batch whose number within
\* the epoch is a multiple of 20, with that number as its step, and the
\* per-epoch line whenever it leaves the batch loop of an epoch; the step
\* counter restarts at 0 with every epoch; no step of another rank prints.
C15_LoggingRank0 ==
  [][/\ console' # console => console'.rank = 0 /\ console'.kind # "none"
     /\ BatchDone(0) /\ BatchesIn(0) % LogEvery = 0
          => console' = [rank |-> 0, kind |-> "batch", epoch |-> epoch[0] + 1,
                         step |-> BatchesIn(0)]
     /\ BatchDone(0) /\ BatchesIn(0) % LogEvery # 0 => console' = console
     /\ EpochDone(0)
          => console' = [rank |-> 0, kind |-> "epoch", epoch |-> epoch[0] + 1,
                         step |-> BatchesIn(0)]
     /\ ~BatchDone(0) /\ ~EpochDone(0) => console' = console
     /\ \A r \in Ranks :
          /\ pc[r] = "epoch" /\ pc'[r] = "sample" => step'[r] = 0
          /\ BatchDone(r) => step'[r] = BatchesIn(r)]_vars

\* C15 witness: in its second epoch rank 0 has just completed the twentieth
\* mini-batch and printed the per-batch line, while rank 1 has completed
\* twenty mini-batches of that epoch too.
C15_Witness ==
  /\ world = 2
  /\ console = [rank |-> 0, kind |-> "batch", epoch |-> 2, step |-> LogEvery]
  /\ step[0] = LogEvery /\ nsteps[0] = 2 * LogEvery + 1
  /\ step[1] = LogEvery /\ pc[1] = "sample"

\* C16: a trainer about to take a node flow can take it, its label lookup
\* being in bounds; and the ids looked up for the current node flow are
\* training node ids of the trainer, within the label vector, each reading
\* the label loaded for that training node.
C16_LabelLookup ==
  \A r \in Ranks :
    /\ (pc[r] = "sample" /\ pos[r] < Len(order[r])) => ENABLED Sample(r)
    /\ \A i \in DOMAIN label[r].ids :
         LET n == label[r].ids[i]
         IN /\ n \in TrainSet(r)
            /\ n + 1 \in DOMAIN labels[r]
            /\ \E j \in DOMAIN trainNid[r] :
                 trainNid[r][j] = n /\ label[r].vals[i] = subLabels[r][j]

\* C16 witness: rank 1 trains on node 1 alone, labelled 1, and has looked up
\* the label of its node flow: index 1 of a vector whose entry 0 is a filler.
C16_Witness ==
  /\ world = 2
  /\ trainNid[1] = <<1>> /\ subLabels[1] = <<1>>
  /\ pc[1] = "forward"
  /\ label[1] = [ids |-> <<1>>, vals |-> <<1>>]
  /\ labels[1][1] = 0

\* The step in which trainer r runs the backward pass of its next mini-batch.
BeginsBackward(r) == pc[r] = "backward" /\ pc'[r] = "allreduce"

\* Trainer q has returned from its k-th gradient all-reduce.
Returned(q, k) == nsteps[q] >= k \/ (pc[q] = "step" /\ bwd[q] >= k)

\* C17 as stated: the numbers of optimizer steps of two trainers differ by at
\* most 1, and when a trainer begins the backward pass of its step k+1
\* every trainer still alive has completed (returned from) the all-reduce of
\* step k.
C17_LockstepCompleted ==
  /\ [](\A r, q \in Ranks : nsteps[r] <= nsteps[q] + 1)
  /\ [][\A r \in Ranks :
          BeginsBackward(r)
            => \A q \in Ranks : ~Dead(q) => Returned(q, bwd[r])]_vars

\* C17 amended: the numbers of optimizer steps of two trainers differ by at
\* most 1, and when a trainer begins the backward pass of its step k+1
\* every trainer has entered the all-reduce of step k, which has its result;
\* a trainer may not have returned from it yet.
C17_Lockstep ==
  /\ [](\A r, q \in Ranks : nsteps[r] <= nsteps[q] + 1)
  /\ [][\A r \in Ranks :
          BeginsBackward(r)
            => /\ reduced >= bwd[r]
               /\ \A q \in Ranks : bwd[q] >= bwd[r]]_vars

\* C17 witness: rank 0 has run the backward pass of its second step and is
\* in the second all-reduce while rank 1 has not returned from the first.
C17_Witness ==
  /\ world = 2
  /\ pc[0] = "allreduce" /\ bwd[0] = 2 /\ nsteps[0] = 1
  /\ pc[1] = "allreduce" /\ bwd[1] = 1 /\ nsteps[1] = 0
  /\ reduced = 1

\* The gradients are reset between the forward and the backward pass of
\* every mini-batch, so .grad holds the gradients of one step only.
GradReset ==
  \A r \in Ranks :
    /\ pc[r] = "backward" => grad[r] = 0 /\ nfFwd[r] = 1 /\ nfBwd[r] = 0
    /\ pc[r] \in {"allreduce", "step"} => grad[r] \in 0 .. MaxGrad

\* C18 as stated: the gradients are reset between the forward and the
\* backward pass, and the update of an optimizer step is a function of the
\* parameters and of the averaged gradients of that step alone: the one the
\* optimizer applies when it has seen no earlier gradient.
C18_UpdateFromStepAlone ==
  /\ []GradReset
  /\ [][\A r \in Ranks :
          BatchDone(r)
            => param'[r] = AdamParam(param[r], AdamMoment(0, grad[r]))]_vars

\* C18 amended: the gradients are reset between the forward and the
\* backward pass, so the .grad buffers never accumulate; the update of an
\* optimizer step is a function of the parameters, of the averaged gradients
\* of that step and of the optimizer's moment estimate, which every step
\* updates with its gradients and which so carries the earlier steps'.
C18_BuffersDoNotAccumulate ==
  /\ []GradReset
  /\ [][\A r \in Ranks :
          BatchDone(r)
            => /\ mom'[r] = AdamMoment(mom[r], grad[r])
               /\ param'[r] = AdamParam(param[r], mom'[r])
               /\ grad'[r] = grad[r]]_vars

\* C18 witness: a single trainer has done two optimizer steps; the second
\* step's gradient was zero, yet the moment estimate left by the first
\* step's gradient moved the parameters.
C18_Witness ==
  /\ world = 1
  /\ nsteps[0] = 2 /\ pc[0] = "sample"
  /\ grad[0] = 0 /\ mom[0] = 1

====
